---- MODULE Spec2Model ----
(***************************************************************************)
(* go-openconnect-sso: the single sign-on handshake of main.go.            *)
(*                                                                         *)
(* The program is one thread of control: it starts a browser, runs the     *)
(* initialization stage against the gateway, navigates the browser to the  *)
(* login URL, polls the browser's cookies for the token cookie, runs the   *)
(* finalization stage and writes the OpenConnect config file.  The         *)
(* environment (browser driver, gateway, browser cookie jar, file system)  *)
(* is the source of every nondeterministic choice.                         *)
(***************************************************************************)
EXTENDS Integers, Sequences, FiniteSets, TLC

(* ------------------------------ bounds --------------------------------- *)

\* longest cookie list the browser context holds
MaxJar == 2
\* the poll counter saturates here (the loop itself is unbounded)
MaxPolls == 2

(* --------------------------- input domains ----------------------------- *)

\* values of the -server flag
Servers == {"https://vpn.example.com", "https://alias.example.com"}

\* URLs the redirect-following GET can end at
Gateways == Servers \cup {"https://vpn2.example.com"}

\* marks an element that a response body does not contain
Absent == "<absent>"

\* a body that is not XML
MalformedInit ==
  [wellFormed |-> FALSE, LoginURL |-> Absent, TokenCookieName |-> Absent,
   Opaque |-> Absent]

\* bodies the gateway can answer the init POST with
InitBodies ==
  { MalformedInit }
  \cup
  { [wellFormed |-> TRUE, LoginURL |-> l, TokenCookieName |-> t, Opaque |-> o] :
      l \in {Absent, "https://idp.example.com/login"},
      t \in {Absent, "ssotoken"},
      o \in {Absent, "abc123"} }

\* a body that is not XML
MalformedFinal == [wellFormed |-> FALSE, Cookie |-> Absent, Fingerprint |-> Absent]

\* bodies the gateway can answer the auth-reply POST with
FinalBodies ==
  { MalformedFinal }
  \cup
  { [wellFormed |-> TRUE, Cookie |-> c, Fingerprint |-> f] :
      c \in {Absent, "sesscookie"},
      f \in {Absent, "fp789"} }

\* cookies the identity provider can set: two token cookies and a decoy whose
\* name extends the token cookie's name
Cookies ==
  { [name |-> "ssotoken",  value |-> "tok456"],
    [name |-> "ssotoken",  value |-> "tok999"],
    [name |-> "ssotoken2", value |-> "decoy"] }

RECURSIVE SeqsUpTo(_, _)
SeqsUpTo(S, n) ==
  IF n = 0 THEN { <<>> }
  ELSE LET shorter == SeqsUpTo(S, n - 1)
       IN  shorter \cup { Append(s, x) : s \in shorter, x \in S }

\* cookie lists of the browser context
Jars == SeqsUpTo(Cookies, MaxJar)

(* ------------------------- Go zero values ------------------------------ *)

\* config.InitializationResponse{}
ZeroInitResp == [LoginURL |-> "", TokenCookieName |-> "", Opaque |-> ""]

\* config.FinalizationResponse{}
ZeroFinalResp == [Cookie |-> "", Fingerprint |-> ""]

\* playwright.NetworkCookie{}
ZeroCookie == [name |-> "", value |-> ""]

(* ------------------------------ state ---------------------------------- *)

VARIABLES
  pc,              \* position of main
  exitCode,        \* exit status once pc = "Exit", -1 before
  exitedFrom,      \* position at which the process ended, "" before
  server,          \* *server
  pw, browser, context, page,   \* the handles of main: "unset", "nil", "ok", "closed"
  targetVPNServer, \* main's targetVPNServer
  initResp,        \* main's initResp
  tokenCookie,     \* main's tokenCookie
  finalResp,       \* main's finalResp
  polls,           \* iterations of the polling loop that found nothing (saturating)
  jar,             \* the browser context's cookies
  listErr,         \* whether context.Cookies() currently fails
  net,             \* what the environment did: outcomes and bodies of GET/POST/write
  gets,            \* URLs a GET was issued to
  posts,           \* POST requests issued: [url, payload]
  navs,            \* URLs the page was navigated to
  file,            \* writes of the config file that succeeded
  closes,          \* number of browser.Close() calls
  missed           \* a poll listed a cookie with the token cookie's name and went on

vars == << pc, exitCode, exitedFrom, server, pw, browser, context, page,
           targetVPNServer, initResp, tokenCookie, finalResp, polls, jar,
           listErr, net, gets, posts, navs, file, closes, missed >>

\* nothing has been asked of the environment yet
ZeroNet == [get |-> "none", resolved |-> "", initPost |-> "none",
            initBody |-> MalformedInit, finalPost |-> "none",
            finalBody |-> MalformedFinal, write |-> "none"]

Init ==
  /\ pc = "Start"
  /\ exitCode = -1
  /\ exitedFrom = ""
  /\ server \in Servers
  /\ pw = "unset" /\ browser = "unset" /\ context = "unset" /\ page = "unset"
  /\ targetVPNServer = ""
  /\ initResp = ZeroInitResp
  /\ tokenCookie = ZeroCookie
  /\ finalResp = ZeroFinalResp
  /\ polls = 0
  /\ jar = <<>>
  /\ listErr = FALSE
  /\ net = ZeroNet
  /\ gets = <<>>
  /\ posts = <<>>
  /\ navs = <<>>
  /\ file = <<>>
  /\ closes = 0
  /\ missed = FALSE

(* ---------------------------- termination ------------------------------ *)

\* os.Exit(code), and the end of the process by a runtime panic (status 2)
Exit(code) ==
  /\ pc' = "Exit"
  /\ exitCode' = code
  /\ exitedFrom' = pc

\* a nil pointer or nil interface is dereferenced: the Go runtime panics
Panic ==
  /\ Exit(2)
  /\ UNCHANGED << server, pw, browser, context, page, targetVPNServer, initResp,
                  tokenCookie, finalResp, polls, jar, listErr, net, gets, posts,
                  navs, file, closes, missed >>

(* --------------------------- browser set-up ---------------------------- *)

\* pw, err := playwright.Run(); the error is logged and main goes on
PlaywrightRun ==
  /\ pc = "Start"
  /\ \E h \in {"ok", "nil"} : pw' = h
  /\ pc' = "Launch"
  /\ UNCHANGED << exitCode, exitedFrom, server, browser, context, page,
                  targetVPNServer, initResp, tokenCookie, finalResp, polls, jar,
                  listErr, net, gets, posts, navs, file, closes, missed >>

\* browser, err := pw.Firefox.Launch(...); the error is logged and main goes on
FirefoxLaunch ==
  /\ pc = "Launch"
  /\ IF pw = "nil"
     THEN Panic
     ELSE /\ \E h \in {"ok", "nil"} : browser' = h
          /\ pc' = "NewContext"
          /\ UNCHANGED << exitCode, exitedFrom, server, pw, context, page,
                          targetVPNServer, initResp, tokenCookie, finalResp,
                          polls, jar, listErr, net, gets, posts, navs, file,
                          closes, missed >>

\* context, err := browser.NewContext(); the error is logged and main goes on
NewContext ==
  /\ pc = "NewContext"
  /\ IF browser = "nil"
     THEN Panic
     ELSE /\ \E h \in {"ok", "nil"} : context' = h
          /\ pc' = "NewPage"
          /\ UNCHANGED << exitCode, exitedFrom, server, pw, browser, page,
                          targetVPNServer, initResp, tokenCookie, finalResp,
                          polls, jar, listErr, net, gets, posts, navs, file,
                          closes, missed >>

\* page, err := context.NewPage(); the error is logged and main goes on
NewPage ==
  /\ pc = "NewPage"
  /\ IF context = "nil"
     THEN Panic
     ELSE /\ \E h \in {"ok", "nil"} : page' = h
          /\ pc' = "Initialization"
          /\ UNCHANGED << exitCode, exitedFrom, server, pw, browser, context,
                          targetVPNServer, initResp, tokenCookie, finalResp,
                          polls, jar, listErr, net, gets, posts, navs, file,
                          closes, missed >>

(* --------------------------- gateway client ---------------------------- *)

\* the character data xml.Unmarshal stores for an element: "" when it is absent
Text(e) == IF e = Absent THEN "" ELSE e

\* makePostReq: the request is built (or the process exits), sent (or the
\* process exits), and the response body is returned
makePostReq(xmlPayload, srv, outcome, respBody) ==
  IF outcome = "buildErr"
  THEN [exit |-> TRUE, sent |-> <<>>, body |-> respBody]
  ELSE IF outcome = "transportErr"
  THEN [exit |-> TRUE, sent |-> << [url |-> srv, payload |-> xmlPayload] >>,
        body |-> respBody]
  ELSE [exit |-> FALSE, sent |-> << [url |-> srv, payload |-> xmlPayload] >>,
        body |-> respBody]

(* ------------------------- initialization stage ------------------------ *)

\* xml.Unmarshal(body, &result) for config.InitializationResponse
xmlUnmarshalInit(body) ==
  IF body.wellFormed
  THEN [err |-> FALSE,
        result |-> [LoginURL |-> Text(body.LoginURL),
                    TokenCookieName |-> Text(body.TokenCookieName),
                    Opaque |-> Text(body.Opaque)]]
  ELSE [err |-> TRUE, result |-> ZeroInitResp]

\* the init request body: group-access carries the resolved URL
InitPayload(target) == [type |-> "init", groupAccess |-> target]

\* what the environment can do during the initialization stage
InitEnvs ==
  { [get |-> "fail", resolved |-> "", initPost |-> "none", initBody |-> MalformedInit] }
  \cup
  { [get |-> "ok", resolved |-> r, initPost |-> o, initBody |-> MalformedInit] :
      r \in Gateways, o \in {"buildErr", "transportErr"} }
  \cup
  { [get |-> "ok", resolved |-> r, initPost |-> "ok", initBody |-> b] :
      r \in Gateways, b \in InitBodies }

\* initializationStage with the os.Exit(1) calls after its POST and parse errors
\* left out: the error is logged and the zero value is returned
initializationStageNoExit(url, env) ==
  IF env.get = "fail"
  THEN [exit |-> TRUE, gets |-> << url >>, posts |-> <<>>,
        result |-> ZeroInitResp, target |-> ""]
  ELSE LET target == env.resolved
           p == makePostReq(InitPayload(target), target, env.initPost, env.initBody)
           u == xmlUnmarshalInit(p.body)
       IN  IF p.exit \/ u.err
           THEN [exit |-> FALSE, gets |-> << url >>, posts |-> p.sent,
                 result |-> ZeroInitResp, target |-> target]
           ELSE [exit |-> FALSE, gets |-> << url >>, posts |-> p.sent,
                 result |-> u.result, target |-> target]

\* initializationStage that keeps the URL it was given instead of the URL the
\* GET resolved to
initializationStageUsesURL(url, env) ==
  IF env.get = "fail"
  THEN [exit |-> TRUE, gets |-> << url >>, posts |-> <<>>,
        result |-> ZeroInitResp, target |-> ""]
  ELSE LET target == url
           p == makePostReq(InitPayload(target), target, env.initPost, env.initBody)
           u == xmlUnmarshalInit(p.body)
       IN  IF p.exit \/ u.err
           THEN [exit |-> TRUE, gets |-> << url >>, posts |-> p.sent,
                 result |-> ZeroInitResp, target |-> target]
           ELSE [exit |-> FALSE, gets |-> << url >>, posts |-> p.sent,
                 result |-> u.result, target |-> target]

\* initializationStage(url): GET, init POST, parse
initializationStage(url, env) ==
  IF env.get = "fail"
  THEN [exit |-> TRUE, gets |-> << url >>, posts |-> <<>>,
        result |-> ZeroInitResp, target |-> ""]
  ELSE LET target == env.resolved
           p == makePostReq(InitPayload(target), target, env.initPost, env.initBody)
           u == xmlUnmarshalInit(p.body)
       IN  IF p.exit \/ u.err
           THEN [exit |-> TRUE, gets |-> << url >>, posts |-> p.sent,
                 result |-> ZeroInitResp, target |-> target]
           ELSE [exit |-> FALSE, gets |-> << url >>, posts |-> p.sent,
                 result |-> u.result, target |-> target]

\* initResp, targetVPNServer := initializationStage(*server)
InitializationStage ==
  /\ pc = "Initialization"
  /\ \E env \in InitEnvs :
       LET s == initializationStage(server, env)
       IN  /\ net' = [net EXCEPT !.get = env.get, !.resolved = env.resolved,
                                 !.initPost = env.initPost, !.initBody = env.initBody]
           /\ gets' = gets \o s.gets
           /\ posts' = posts \o s.posts
           /\ IF s.exit
              THEN /\ Exit(1)
                   /\ UNCHANGED << initResp, targetVPNServer >>
              ELSE /\ initResp' = s.result
                   /\ targetVPNServer' = s.target
                   /\ pc' = "Initialized"
                   /\ UNCHANGED << exitCode, exitedFrom >>
  /\ UNCHANGED << server, pw, browser, context, page, tokenCookie, finalResp,
                  polls, jar, listErr, navs, file, closes, missed >>

(* ------------------------------ login wait ----------------------------- *)

\* page.Goto(initResp.LoginURL); its error is dropped
Goto ==
  /\ pc = "Initialized"
  /\ IF page = "nil"
     THEN Panic
     ELSE /\ navs' = Append(navs, initResp.LoginURL)
          /\ pc' = "AwaitingToken"
          /\ UNCHANGED << exitCode, exitedFrom, server, pw, browser, context,
                          page, targetVPNServer, initResp, tokenCookie, finalResp,
                          polls, jar, listErr, net, gets, posts, file, closes,
                          missed >>

\* the browser's cookies change while the login page is open
JarChange ==
  /\ pc = "AwaitingToken"
  /\ \E j \in Jars \ {jar} : jar' = j
  /\ UNCHANGED << pc, exitCode, exitedFrom, server, pw, browser, context, page,
                  targetVPNServer, initResp, tokenCookie, finalResp, polls,
                  listErr, net, gets, posts, navs, file, closes, missed >>

\* context.Cookies() starts or stops failing
ListingChange ==
  /\ pc = "AwaitingToken"
  /\ listErr' = ~listErr
  /\ UNCHANGED << pc, exitCode, exitedFrom, server, pw, browser, context, page,
                  targetVPNServer, initResp, tokenCookie, finalResp, polls,
                  jar, net, gets, posts, navs, file, closes, missed >>

\* cookies, err := context.Cookies(): nil when the listing fails
ContextCookies == IF listErr THEN <<>> ELSE jar

\* the cookies named like the token cookie, by position
NameEqual(cookies, name) == { i \in 1..Len(cookies) : cookies[i].name = name }

\* strings.HasPrefix(s, p)
HasPrefix(s, p) == Len(p) <= Len(s) /\ SubSeq(s, 1, Len(p)) = p

\* the inner loop with strings.HasPrefix(cookie.Name, name) for cookie.Name == name
FindCookieHasPrefix(cookies, name) ==
  LET idx == { i \in 1..Len(cookies) : HasPrefix(cookies[i].name, name) }
  IN  IF idx = {}
      THEN [found |-> FALSE, cookie |-> ZeroCookie]
      ELSE [found |-> TRUE,
            cookie |-> cookies[CHOOSE i \in idx : \A j \in idx : i <= j]]

\* the inner loop: the first cookie whose name equals name, if any
FindCookie(cookies, name) ==
  LET idx == NameEqual(cookies, name)
  IN  IF idx = {}
      THEN [found |-> FALSE, cookie |-> ZeroCookie]
      ELSE [found |-> TRUE,
            cookie |-> cookies[CHOOSE i \in idx : \A j \in idx : i <= j]]

\* the polling loop without browser.Close()
PollNoClose ==
  /\ pc = "AwaitingToken"
  /\ LET cookies == ContextCookies
         r == FindCookie(cookies, initResp.TokenCookieName)
     IN  IF r.found
         THEN /\ tokenCookie' = r.cookie
              /\ pc' = "Finalization"
              /\ UNCHANGED << polls, missed, browser, closes >>
         ELSE /\ polls' = IF polls < MaxPolls THEN polls + 1 ELSE polls
              /\ missed' = (missed \/ NameEqual(cookies, initResp.TokenCookieName) # {})
              /\ UNCHANGED << tokenCookie, browser, closes, pc >>
  /\ UNCHANGED << exitCode, exitedFrom, server, pw, context, page,
                  targetVPNServer, initResp, finalResp, jar, listErr, net, gets,
                  posts, navs, file >>

\* the polling loop giving up with os.Exit(1) after MaxPolls empty polls
PollTimeout ==
  /\ pc = "AwaitingToken"
  /\ LET cookies == ContextCookies
         r == FindCookie(cookies, initResp.TokenCookieName)
     IN  IF r.found
         THEN /\ tokenCookie' = r.cookie
              /\ browser' = "closed"
              /\ closes' = closes + 1
              /\ pc' = "Finalization"
              /\ UNCHANGED << polls, missed, exitCode, exitedFrom >>
         ELSE IF polls >= MaxPolls
         THEN /\ Exit(1)
              /\ UNCHANGED << tokenCookie, browser, closes, polls, missed >>
         ELSE /\ polls' = polls + 1
              /\ missed' = (missed \/ NameEqual(cookies, initResp.TokenCookieName) # {})
              /\ UNCHANGED << tokenCookie, browser, closes, pc, exitCode, exitedFrom >>
  /\ UNCHANGED << server, pw, context, page,
                  targetVPNServer, initResp, finalResp, jar, listErr, net, gets,
                  posts, navs, file >>

\* one iteration of the polling loop
Poll ==
  /\ pc = "AwaitingToken"
  /\ LET cookies == ContextCookies
         r == FindCookie(cookies, initResp.TokenCookieName)
     IN  IF r.found
         THEN /\ tokenCookie' = r.cookie
              /\ browser' = "closed"
              /\ closes' = closes + 1
              /\ pc' = "Finalization"
              /\ UNCHANGED << polls, missed >>
         ELSE /\ polls' = IF polls < MaxPolls THEN polls + 1 ELSE polls
              /\ missed' = (missed \/ NameEqual(cookies, initResp.TokenCookieName) # {})
              /\ UNCHANGED << tokenCookie, browser, closes, pc >>
  /\ UNCHANGED << exitCode, exitedFrom, server, pw, context, page,
                  targetVPNServer, initResp, finalResp, jar, listErr, net, gets,
                  posts, navs, file >>

(* -------------------------- finalization stage ------------------------- *)

\* xml.Unmarshal(body, &result) for config.FinalizationResponse
xmlUnmarshalFinal(body) ==
  IF body.wellFormed
  THEN [err |-> FALSE,
        result |-> [Cookie |-> Text(body.Cookie),
                    Fingerprint |-> Text(body.Fingerprint)]]
  ELSE [err |-> TRUE, result |-> ZeroFinalResp]

\* the auth-reply request body with the two Sprintf arguments in the other order
AuthReplyPayloadSwapped(configHash, token) ==
  [type |-> "auth-reply", opaque |-> token, ssoToken |-> configHash]

\* the auth-reply request body: <opaque> gets the first argument of Sprintf,
\* <sso-token> the second
AuthReplyPayload(configHash, token) ==
  [type |-> "auth-reply", opaque |-> configHash, ssoToken |-> token]

\* what the environment can do during the finalization stage
FinalEnvs ==
  { [finalPost |-> o, finalBody |-> MalformedFinal] : o \in {"buildErr", "transportErr"} }
  \cup
  { [finalPost |-> "ok", finalBody |-> b] : b \in FinalBodies }

\* finalizationStage(vpnServer, token, configHash): auth-reply POST, parse
finalizationStage(vpnServer, token, configHash, env) ==
  LET p == makePostReq(AuthReplyPayload(configHash, token), vpnServer,
                       env.finalPost, env.finalBody)
      u == xmlUnmarshalFinal(p.body)
  IN  IF p.exit \/ u.err
      THEN [exit |-> TRUE, posts |-> p.sent, result |-> ZeroFinalResp]
      ELSE [exit |-> FALSE, posts |-> p.sent, result |-> u.result]

\* finalResp := finalizationStage(targetVPNServer, tokenCookie.Value, initResp.Opaque.Value)
FinalizationStage ==
  /\ pc = "Finalization"
  /\ \E env \in FinalEnvs :
       LET s == finalizationStage(targetVPNServer, tokenCookie.value,
                                  initResp.Opaque, env)
       IN  /\ net' = [net EXCEPT !.finalPost = env.finalPost,
                                 !.finalBody = env.finalBody]
           /\ posts' = posts \o s.posts
           /\ IF s.exit
              THEN /\ Exit(1)
                   /\ UNCHANGED finalResp
              ELSE /\ finalResp' = s.result
                   /\ pc' = "Finalized"
                   /\ UNCHANGED << exitCode, exitedFrom >>
  /\ UNCHANGED << server, pw, browser, context, page, targetVPNServer, initResp,
                  tokenCookie, polls, jar, listErr, gets, navs, file, closes,
                  missed >>

(* ----------------------------- config writer --------------------------- *)

\* the file content with cookie and fingerprint in the other order
OCConfigContentSwapped(cookie, fingerprint, srv) ==
  << "cookie=" \o fingerprint, "servercert=" \o cookie, "# host=" \o srv >>

\* fmt.Sprintf("cookie=%s\nservercert=%s\n# host=%s\n", ...), as its lines
OCConfigContent(cookie, fingerprint, srv) ==
  << "cookie=" \o cookie, "servercert=" \o fingerprint, "# host=" \o srv >>

\* writeOCConfig(finalResp.Cookie, finalResp.Fingerprint, targetVPNServer, *ocFile)
WriteOCConfig ==
  /\ pc = "Finalized"
  /\ \E w \in {"ok", "fail"} :
       /\ net' = [net EXCEPT !.write = w]
       /\ IF w = "fail"
          THEN /\ Exit(1)
               /\ UNCHANGED file
          ELSE /\ file' = Append(file, OCConfigContent(finalResp.Cookie,
                                                       finalResp.Fingerprint,
                                                       targetVPNServer))
               /\ pc' = "Written"
               /\ UNCHANGED << exitCode, exitedFrom >>
  /\ UNCHANGED << server, pw, browser, context, page, targetVPNServer, initResp,
                  tokenCookie, finalResp, polls, jar, listErr, gets, posts, navs,
                  closes, missed >>

\* main returns: the process ends with status 0
MainReturn ==
  /\ pc = "Written"
  /\ Exit(0)
  /\ UNCHANGED << server, pw, browser, context, page, targetVPNServer, initResp,
                  tokenCookie, finalResp, polls, jar, listErr, net, gets, posts,
                  navs, file, closes, missed >>

(* ---------------------------- specification ---------------------------- *)

Next ==
  \/ PlaywrightRun
  \/ FirefoxLaunch
  \/ NewContext
  \/ NewPage
  \/ InitializationStage
  \/ Goto
  \/ JarChange
  \/ ListingChange
  \/ Poll
  \/ FinalizationStage
  \/ WriteOCConfig
  \/ MainReturn

Spec == Init /\ [][Next]_vars

\* the polling loop and the call after it keep running: main is never descheduled
\* for good
LiveSpec == Spec /\ WF_vars(Poll) /\ WF_vars(FinalizationStage)

(* ------------------------ vocabulary of the claims --------------------- *)

\* the polling loop has ended with a cookie
TokenCaptured ==
  \/ pc \in {"Finalization", "Finalized", "Written"}
  \/ pc = "Exit" /\ exitedFrom \in {"Finalization", "Finalized", "Written"}

\* the POST requests of one type that were issued
PostsOfType(t) == { i \in DOMAIN posts : posts[i].payload.type = t }

\* a step of the browser set-up returned an error
EnvError == "nil" \in {pw, browser, context, page}

\* the initialization stage met a GET, POST or parse failure
InitFailed ==
  \/ net.get = "fail"
  \/ net.initPost \in {"buildErr", "transportErr"}
  \/ net.initPost = "ok" /\ ~net.initBody.wellFormed

\* the init response arrived and is not XML or lacks a field
InitDefective ==
  /\ net.initPost = "ok"
  /\ \/ ~net.initBody.wellFormed
     \/ Absent \in {net.initBody.LoginURL, net.initBody.TokenCookieName,
                    net.initBody.Opaque}

\* the auth-reply response arrived and is not XML or lacks a field
FinalDefective ==
  /\ net.finalPost = "ok"
  /\ \/ ~net.finalBody.wellFormed
     \/ Absent \in {net.finalBody.Cookie, net.finalBody.Fingerprint}

\* a poll now would list a cookie named like the token cookie
TokenVisible ==
  /\ ~listErr
  /\ \E i \in 1..Len(jar) : jar[i].name = initResp.TokenCookieName

\* i is the position of the first cookie of the jar with the token cookie's name
FirstNameEqual(i) ==
  /\ i \in 1..Len(jar)
  /\ jar[i].name = Text(net.initBody.TokenCookieName)
  /\ \A j \in 1..(i - 1) : jar[j].name # Text(net.initBody.TokenCookieName)

(* -------------------------------- claims ------------------------------- *)

\* C1: every run passes the stages in the order Start, Initialized,
\* AwaitingToken, Finalized, Written, Exit(0): the GET, the init POST, the
\* auth-reply POST and the file write are each issued at most once and each only
\* after its predecessor, and the process ends only with status 0, from Written,
\* or with status 1.
C1_StagesInOrder ==
  /\ Len(gets) <= 1
  /\ Cardinality(PostsOfType("init")) <= 1
  /\ Cardinality(PostsOfType("auth-reply")) <= 1
  /\ Len(navs) <= 1
  /\ Len(file) <= 1
  /\ PostsOfType("init") # {} => gets # <<>>
  /\ navs # <<>> => PostsOfType("init") # {}
  /\ PostsOfType("auth-reply") # {} => navs # <<>> /\ TokenCaptured
  /\ file # <<>> => PostsOfType("auth-reply") # {}
  /\ pc = "Exit" => /\ exitCode \in {0, 1}
                    /\ exitCode = 0 => exitedFrom = "Written" /\ file # <<>>

\* C2: when the initialization stage fails (GET failure, init POST not built or
\* not transported, init response not parsed) the process has ended with status
\* 1, the browser was never navigated, no auth-reply POST was issued and no
\* file was written.
C2_InitFailureIsFatal ==
  InitFailed =>
    /\ pc = "Exit"
    /\ exitCode = 1
    /\ exitedFrom = "Initialization"
    /\ navs = <<>>
    /\ PostsOfType("auth-reply") = {}
    /\ net.finalPost = "none"
    /\ file = <<>>

\* C2 witness: the init POST failed in transport and the process has ended
C2_Witness ==
  /\ net.initPost = "transportErr"
  /\ Len(posts) = 1
  /\ pc = "Exit"

\* C3: after an error of the browser set-up (driver, browser, context or page)
\* the process ends with status 1 and runs neither the initialization stage nor
\* the login wait, the finalization stage or the config write.
C3_EnvErrorIsFatal ==
  EnvError =>
    /\ pc \in {"Launch", "NewContext", "NewPage", "Initialization", "Exit"}
    /\ pc = "Exit" => exitCode = 1
    /\ gets = <<>>
    /\ posts = <<>>
    /\ navs = <<>>
    /\ file = <<>>

\* C4: a gateway response that is not XML or lacks an expected field ends the
\* process with status 1 before the next stage: no navigation after a defective
\* init response, no file write after a defective auth-reply response.
\* (Stated for the runs whose browser set-up met no error.)
C4_ProtocolErrorIsFatal ==
  ~EnvError =>
    /\ InitDefective =>
         pc = "Exit" /\ exitCode = 1 /\ exitedFrom = "Initialization" /\ navs = <<>>
    /\ FinalDefective =>
         pc = "Exit" /\ exitCode = 1 /\ exitedFrom = "Finalization" /\ file = <<>>

\* C5: the URL the GET resolved to is the target of everything after it: both
\* POSTs go to it, the init payload and the file's host line carry it, and the
\* URL given on the command line is used for the GET alone.
C5_ResolvedURLIsCanonical ==
  /\ \A i \in DOMAIN gets : gets[i] = server
  /\ \A i \in DOMAIN posts : posts[i].url = net.resolved
  /\ \A i \in PostsOfType("init") : posts[i].payload.groupAccess = net.resolved
  /\ \A i \in DOMAIN file : file[i][3] = "# host=" \o net.resolved
  /\ pc \in {"Initialized", "AwaitingToken", "Finalization", "Finalized", "Written"}
       => targetVPNServer = net.resolved

\* C5 witness: a run that was redirected, sent both POSTs and wrote the file
C5_Witness ==
  /\ net.resolved # server
  /\ net.resolved = "https://vpn2.example.com"
  /\ Len(posts) = 2
  /\ file # <<>>

\* C6: the wait ends only on a cookie whose name equals TokenCookieName: the
\* captured cookie is the first cookie of that name in the first listing that
\* holds one, its value is the sso-token sent, and no earlier listing held one.
C6_TokenCookieByExactName ==
  /\ ~missed
  /\ TokenCaptured =>
       \E i \in 1..Len(jar) :
         /\ FirstNameEqual(i)
         /\ tokenCookie = jar[i]
         /\ \A k \in PostsOfType("auth-reply") : posts[k].payload.ssoToken = jar[i].value
  /\ ~TokenCaptured => tokenCookie = ZeroCookie /\ PostsOfType("auth-reply") = {}

\* C6 witness: the token was captured from a jar that lists a decoy first and
\* two cookies of the right name after it, after a poll that found nothing
C6_Witness ==
  /\ TokenCaptured
  /\ polls >= 1
  /\ Len(jar) >= 2
  /\ jar[1].name = "ssotoken2"
  /\ jar[2].name = "ssotoken"
  /\ PostsOfType("auth-reply") # {}

\* C7: browser.Close() is called exactly once, by the poll that finds the token
\* and before the auth-reply POST; the browser is open during the
\* initialization stage and the wait, and a run that ends before the capture
\* never closed it.
C7_BrowserClosedOnceOnCapture ==
  /\ closes <= 1
  /\ closes = 1 <=> TokenCaptured
  /\ closes = 1 <=> browser = "closed"
  /\ PostsOfType("auth-reply") # {} => closes = 1
  /\ net.finalPost # "none" => closes = 1
  /\ pc \in {"Initialization", "Initialized", "AwaitingToken"}
       => browser = "ok" /\ closes = 0
  /\ pc = "Exit" /\ ~TokenCaptured => closes = 0 /\ browser # "closed"

\* C7 witness: the token has just been captured, the auth-reply POST not yet sent
C7_Witness ==
  /\ pc = "Finalization"
  /\ closes = 1
  /\ browser = "closed"
  /\ Len(posts) = 1

\* C8: the wait has no exit but a listed cookie of the right name: a step taken
\* in AwaitingToken while no such cookie is listed (the jar holds none, or the
\* listing fails) stays in AwaitingToken; and once such a cookie is listed, the
\* finalization stage is eventually invoked unless the cookie stops being listed
\* before the next poll.
C8_WaitEndsOnlyOnToken ==
  /\ [][ (pc = "AwaitingToken" /\ ~TokenVisible) => pc' = "AwaitingToken" ]_vars
  /\ [][ pc = "AwaitingToken" => pc' \in {"AwaitingToken", "Finalization"} ]_vars
  /\ (pc = "AwaitingToken" /\ TokenVisible)
       ~> (net.finalPost # "none" \/ (pc = "AwaitingToken" /\ ~TokenVisible))

\* C8 witness: the finalization stage was invoked after polls that found nothing
C8_Witness ==
  /\ net.finalPost # "none"
  /\ polls >= 2

\* C9: the auth-reply request carries the Opaque value of this run's init
\* response as opaque and the captured cookie's value as sso-token.
C9_AuthReplyEchoesOpaqueAndToken ==
  \A k \in PostsOfType("auth-reply") :
    /\ posts[k].payload.opaque = Text(net.initBody.Opaque)
    /\ \E i \in 1..Len(jar) :
         FirstNameEqual(i) /\ posts[k].payload.ssoToken = jar[i].value

\* C9 witness: an auth-reply request was sent with a parsed opaque and a token
C9_Witness ==
  \E k \in PostsOfType("auth-reply") :
    /\ posts[k].payload.opaque = "abc123"
    /\ posts[k].payload.ssoToken = "tok999"

====
